---------------------------- MODULE Spec2Model ----------------------------
(***************************************************************************)
(* The deferred symbol-resolution layer of the click package               *)
(* (src/click/__init__.py): the module namespace with its two registries   *)
(* and export list, and the module-level __getattr__ that the host calls   *)
(* when ordinary attribute lookup on the package finds nothing.            *)
(*                                                                         *)
(* One access `click.<name>` is one step.  The host's collaborators        *)
(* (importlib.import_module, getattr on a unit, warnings.warn,             *)
(* importlib.metadata.version) are modelled by what they do to the state   *)
(* this layer can see: the host's module table, the package namespace,     *)
(* the signals emitted and the value or exception that comes back.         *)
(***************************************************************************)
EXTENDS Naturals, Sequences, FiniteSets, TLC

VARIABLES
    ns,             \* the package namespace, globals() of click/__init__.py
    modules,        \* the host's module table: absolute names of loaded units
    requested,      \* units this layer has passed to import_module so far
    accessedUnits,  \* units backing the registry names accessed so far
    firstValue,     \* per live name, the value its first successful access gave
    last,           \* what the most recent access did and returned,
                    \* whether it repeated the access before it, and the
                    \* units the host initialised during it
    stores,         \* per name, how many times line 190 has stored under it
    threads         \* per thread, where it is in the access it is making

vars ==
    <<ns, modules, requested, accessedUnits, firstValue, last, stores,
      threads>>

---------------------------------------------------------------------------
(* The registries and the export list, as written in the source.           *)

_lazy_imports ==
    ("Argument" :> <<".core", "Argument">>)
    @@ ("Command" :> <<".core", "Command">>)
    @@ ("CommandCollection" :> <<".core", "CommandCollection">>)
    @@ ("Context" :> <<".core", "Context">>)
    @@ ("Group" :> <<".core", "Group">>)
    @@ ("Option" :> <<".core", "Option">>)
    @@ ("Parameter" :> <<".core", "Parameter">>)
    @@ ("argument" :> <<".decorators", "argument">>)
    @@ ("command" :> <<".decorators", "command">>)
    @@ ("confirmation_option" :> <<".decorators", "confirmation_option">>)
    @@ ("group" :> <<".decorators", "group">>)
    @@ ("help_option" :> <<".decorators", "help_option">>)
    @@ ("make_pass_decorator" :> <<".decorators", "make_pass_decorator">>)
    @@ ("option" :> <<".decorators", "option">>)
    @@ ("pass_context" :> <<".decorators", "pass_context">>)
    @@ ("pass_obj" :> <<".decorators", "pass_obj">>)
    @@ ("password_option" :> <<".decorators", "password_option">>)
    @@ ("version_option" :> <<".decorators", "version_option">>)
    @@ ("Abort" :> <<".exceptions", "Abort">>)
    @@ ("BadArgumentUsage" :> <<".exceptions", "BadArgumentUsage">>)
    @@ ("BadOptionUsage" :> <<".exceptions", "BadOptionUsage">>)
    @@ ("BadParameter" :> <<".exceptions", "BadParameter">>)
    @@ ("ClickException" :> <<".exceptions", "ClickException">>)
    @@ ("FileError" :> <<".exceptions", "FileError">>)
    @@ ("MissingParameter" :> <<".exceptions", "MissingParameter">>)
    @@ ("NoSuchOption" :> <<".exceptions", "NoSuchOption">>)
    @@ ("UsageError" :> <<".exceptions", "UsageError">>)
    @@ ("HelpFormatter" :> <<".formatting", "HelpFormatter">>)
    @@ ("wrap_text" :> <<".formatting", "wrap_text">>)
    @@ ("get_current_context" :> <<".globals", "get_current_context">>)
    @@ ("clear" :> <<".termui", "clear">>)
    @@ ("confirm" :> <<".termui", "confirm">>)
    @@ ("echo_via_pager" :> <<".termui", "echo_via_pager">>)
    @@ ("edit" :> <<".termui", "edit">>)
    @@ ("getchar" :> <<".termui", "getchar">>)
    @@ ("launch" :> <<".termui", "launch">>)
    @@ ("pause" :> <<".termui", "pause">>)
    @@ ("progressbar" :> <<".termui", "progressbar">>)
    @@ ("prompt" :> <<".termui", "prompt">>)
    @@ ("secho" :> <<".termui", "secho">>)
    @@ ("style" :> <<".termui", "style">>)
    @@ ("unstyle" :> <<".termui", "unstyle">>)
    @@ ("BOOL" :> <<".types", "BOOL">>)
    @@ ("Choice" :> <<".types", "Choice">>)
    @@ ("DateTime" :> <<".types", "DateTime">>)
    @@ ("File" :> <<".types", "File">>)
    @@ ("FLOAT" :> <<".types", "FLOAT">>)
    @@ ("FloatRange" :> <<".types", "FloatRange">>)
    @@ ("INT" :> <<".types", "INT">>)
    @@ ("IntRange" :> <<".types", "IntRange">>)
    @@ ("ParamType" :> <<".types", "ParamType">>)
    @@ ("Path" :> <<".types", "Path">>)
    @@ ("STRING" :> <<".types", "STRING">>)
    @@ ("Tuple" :> <<".types", "Tuple">>)
    @@ ("UNPROCESSED" :> <<".types", "UNPROCESSED">>)
    @@ ("UUID" :> <<".types", "UUID">>)
    @@ ("echo" :> <<".utils", "echo">>)
    @@ ("format_filename" :> <<".utils", "format_filename">>)
    @@ ("get_app_dir" :> <<".utils", "get_app_dir">>)
    @@ ("get_binary_stream" :> <<".utils", "get_binary_stream">>)
    @@ ("get_text_stream" :> <<".utils", "get_text_stream">>)
    @@ ("open_file" :> <<".utils", "open_file">>)

\* Faulty variant: a deprecated table that reuses the live name Command.
DeprecatedWithLiveName ==
    ("BaseCommand" :> <<".core", "_BaseCommand",
        "'BaseCommand' is deprecated and will be removed in Click 9.0. Use 'Command' instead.">>)
    @@ ("Command" :> <<".core", "_Command",
        "'Command' is deprecated and will be removed in Click 9.0. Use 'Group' instead.">>)

_deprecated_imports ==
    ("BaseCommand" :> <<".core", "_BaseCommand",
        "'BaseCommand' is deprecated and will be removed in Click 9.0. Use 'Command' instead.">>)
    @@ ("MultiCommand" :> <<".core", "_MultiCommand",
        "'MultiCommand' is deprecated and will be removed in Click 9.0. Use 'Group' instead.">>)
    @@ ("OptionParser" :> <<".parser", "_OptionParser",
        "'OptionParser' is deprecated and will be removed in Click 9.0. The old parser is available in 'optparse'.">>)

__all__ ==
    <<
        "Argument", "Command", "CommandCollection", "Context", "Group",
        "Option", "Parameter", "argument", "command", "confirmation_option",
        "group", "help_option", "make_pass_decorator", "option",
        "pass_context", "pass_obj", "password_option", "version_option",
        "Abort", "BadArgumentUsage", "BadOptionUsage", "BadParameter",
        "ClickException", "FileError", "MissingParameter", "NoSuchOption",
        "UsageError", "HelpFormatter", "wrap_text", "get_current_context",
        "clear", "confirm", "echo_via_pager", "edit", "getchar", "launch",
        "pause", "progressbar", "prompt", "secho", "style", "unstyle", "BOOL",
        "Choice", "DateTime", "File", "FLOAT", "FloatRange", "INT",
        "IntRange", "ParamType", "Path", "STRING", "Tuple", "UNPROCESSED",
        "UUID", "echo", "format_filename", "get_app_dir", "get_binary_stream",
        "get_text_stream", "open_file"
    >>

---------------------------------------------------------------------------
(* Bounds of the model.                                                    *)

\* The names the model accesses: live names sharing a unit, a live name
\* backed by the unit called "globals", the deprecated names, the special
\* case, an unknown name, and names the namespace binds by other means.
AccessNames ==
    { "Command", "Group", "echo", "get_current_context",
      "BaseCommand", "MultiCommand", "OptionParser",
      "__version__", "nonexistent_attribute", "core", "__all__" }

\* Sibling units a unit may import while it initialises.
DepCandidates == { ".globals", ".types" }

\* How many sibling units one initialisation may import.
MaxDeps == 1

\* How many threads access the package at the same time.
NThreads == 2

\* The names the threads access.
ConcNames ==
    { "Command", "BaseCommand", "__version__", "nonexistent_attribute" }

---------------------------------------------------------------------------
(* Values.                                                                 *)

Unbound == [kind |-> "unbound"]
NoValue == [kind |-> "none"]
Attr(unit, symbol) == [kind |-> "attr", unit |-> unit, symbol |-> symbol]
Module(absname) == [kind |-> "module", name |-> absname]
Dict(id) == [kind |-> "dict", id |-> id]
List(id) == [kind |-> "list", id |-> id]
Feature(name) == [kind |-> "feature", name |-> name]
Function(name) == [kind |-> "function", name |-> name]
VersionOf(package) == [kind |-> "version", package |-> package]

Range(f) == { f[x] : x \in DOMAIN f }

\* __package__ of click/__init__.py, the anchor of every relative import.
Package == "click"

VersionMessage ==
    "The '__version__' attribute is deprecated and will be removed in Click 9.1. Use feature detection or 'importlib.metadata.version(\"click\")' instead."

\* All units either registry names.
Units ==
    { _lazy_imports[n][1] : n \in DOMAIN _lazy_imports }
        \cup { _deprecated_imports[n][1] : n \in DOMAIN _deprecated_imports }

\* Faulty variant: the relative name is used without its anchor.
ResolveNameNoAnchor(module_name, package) == module_name

\* importlib.import_module(name, package) resolves the relative name.
ResolveName(module_name, package) == package \o module_name

\* The attribute under which the host binds a loaded sub-unit in its
\* parent package: the last component of the unit's name.
ChildName ==
    (".core" :> "core") @@ (".decorators" :> "decorators")
    @@ (".exceptions" :> "exceptions") @@ (".formatting" :> "formatting")
    @@ (".globals" :> "globals") @@ (".parser" :> "parser")
    @@ (".termui" :> "termui") @@ (".types" :> "types")
    @@ (".utils" :> "utils")

\* Faulty variant: the export list has lost its last name.
ContentsDrifted(ref) ==
    CASE ref.id = "_lazy_imports" -> _lazy_imports
      [] ref.id = "_deprecated_imports" -> _deprecated_imports
      [] ref.id = "__all__" -> SubSeq(__all__, 1, Len(__all__) - 1)

\* The objects the module body builds, by the name it first gives them.  The
\* namespace holds references to them; nothing in the module mutates them.
Contents(ref) ==
    CASE ref.id = "_lazy_imports" -> _lazy_imports
      [] ref.id = "_deprecated_imports" -> _deprecated_imports
      [] ref.id = "__all__" -> __all__

\* Names the module body itself binds.
StaticNames ==
    { "annotations", "_lazy_imports", "_deprecated_imports", "__all__",
      "__getattr__" }

NsKeys == AccessNames \cup StaticNames \cup Range(ChildName)

\* The namespace once the module body has run.
InitialNamespace ==
    [k \in NsKeys |->
        CASE k = "annotations" -> Feature("annotations")
          [] k = "_lazy_imports" -> Dict("_lazy_imports")
          [] k = "_deprecated_imports" -> Dict("_deprecated_imports")
          [] k = "__all__" -> List("__all__")
          [] k = "__getattr__" -> Function("__getattr__")
          [] OTHER -> Unbound]

IsBound(nsx, name) == name \in DOMAIN nsx /\ nsx[name] # Unbound

\* A global name read inside __getattr__ (LOAD_GLOBAL): the namespace first.
LazyTable(nsx) == Contents(nsx["_lazy_imports"])
DeprecatedTable(nsx) == Contents(nsx["_deprecated_imports"])

\* Faulty variant: the unit is read from the entry of another key.
LazyEntryOfFirstKey(nsx, name) ==
    [module_name |-> LazyTable(nsx)["Argument"][1],
     attr_name |-> LazyTable(nsx)[name][2]]

\* module_name, attr_name = _lazy_imports[name]
LazyEntry(nsx, name) ==
    [module_name |-> LazyTable(nsx)[name][1],
     attr_name |-> LazyTable(nsx)[name][2]]

\* Faulty variant: the symbol fetched is the public name, not the entry's.
DeprecatedEntryPublicName(nsx, name) ==
    [module_name |-> DeprecatedTable(nsx)[name][1],
     attr_name |-> name,
     warning_msg |-> DeprecatedTable(nsx)[name][3]]

\* module_name, attr_name, warning_msg = _deprecated_imports[name]
DeprecatedEntry(nsx, name) ==
    [module_name |-> DeprecatedTable(nsx)[name][1],
     attr_name |-> DeprecatedTable(nsx)[name][2],
     warning_msg |-> DeprecatedTable(nsx)[name][3]]

---------------------------------------------------------------------------
(* The host facilities the resolver calls.                                 *)

\* The namespace after the host has bound the newly loaded units `new`
\* (absolute names are Package \o unit) as attributes of the package.
BindSubmodules(nsx, new) ==
    [k \in DOMAIN nsx |->
        IF \E u \in new : ChildName[u] = k
        THEN Module(ResolveName(CHOOSE u \in new : ChildName[u] = k, Package))
        ELSE nsx[k]]

\* Faulty variant: the unit is executed again although it is loaded.
ImportModuleReexecutes(mods, nsx, module_name, deps, ok) ==
    LET new == IF ok THEN deps \cup {module_name} ELSE deps
    IN  [ok |-> ok,
         modules |-> mods \cup { ResolveName(u, Package) : u \in new },
         ns |-> BindSubmodules(nsx, new),
         inits |-> { ResolveName(u, Package) : u \in deps \cup {module_name} }]

\* importlib.import_module(module_name, __package__).  A unit already in the
\* module table is returned as it is.  Otherwise the unit is initialised:
\* the sibling units `deps` it imports are loaded first, and the unit itself
\* enters the module table if its initialisation succeeds (`ok`).  Every
\* unit that enters the module table is bound in the package namespace.
\* `inits` are the units whose initialisation this call has run.
ImportModule(mods, nsx, module_name, deps, ok) ==
    LET abs == ResolveName(module_name, Package)
        newDeps == { d \in deps : ResolveName(d, Package) \notin mods }
        new == IF ok THEN newDeps \cup {module_name} ELSE newDeps
    IN  IF abs \in mods
        THEN [ok |-> TRUE, modules |-> mods, ns |-> nsx, inits |-> {}]
        ELSE [ok |-> ok,
              modules |-> mods \cup { ResolveName(u, Package) : u \in new },
              ns |-> BindSubmodules(nsx, new),
              inits |-> { ResolveName(u, Package) :
                            u \in newDeps \cup {module_name} }]

\* Faulty variant: no signal is emitted.
WarnSilent(signals, message) == signals

\* warnings.warn(message, DeprecationWarning, stacklevel=2): one more signal.
Warn(signals, message) == Append(signals, message)

\* importlib.metadata.version(package)
MetadataVersion(package) == VersionOf(package)

\* getattr(module, attr_name) on a loaded unit.
GetAttr(module_name, attr_name) == Attr(module_name, attr_name)

\* The name `globals` as __getattr__ reads it: the namespace shadows the
\* builtin, and only the builtin can be called.
GlobalsIsBuiltin(nsx) == ~IsBound(nsx, "globals")

\* Faulty variant: the unit is stored in place of the symbol's value.
StoreGlobalModule(nsx, name, value) ==
    [nsx EXCEPT ![name] = Module(ResolveName(value.unit, Package))]

\* Faulty variant: the value is not stored.
StoreGlobalDropped(nsx, name, value) == nsx

\* globals()[name] = value
StoreGlobal(nsx, name, value) == [nsx EXCEPT ![name] = value]

\* The resolution cache: the names line 190 has stored in the namespace,
\* that is, the bound names that the module body did not define and that
\* are not sub-units bound by the host.
CacheKeys(nsx) ==
    { k \in DOMAIN nsx :
        IsBound(nsx, k) /\ k \notin StaticNames /\ nsx[k].kind # "module" }

ResolutionCache(nsx) == [k \in CacheKeys(nsx) |-> nsx[k]]

\* The choices the host makes during one access to a name backed by unit
\* `module_name`: which siblings the unit imports and whether its
\* initialisation succeeds (only when the unit is not loaded yet), and
\* whether the symbol is there (only when there is a unit to ask).
DepChoices == { d \in SUBSET DepCandidates : Cardinality(d) <= MaxDeps }

HostChoices(mods, module_name) ==
    LET loaded == ResolveName(module_name, Package) \in mods
    IN  { c \in [deps : DepChoices, loadOk : BOOLEAN, fetchOk : BOOLEAN] :
            /\ loaded => (c.deps = {} /\ c.loadOk)
            /\ ~c.loadOk => ~c.fetchOk }

---------------------------------------------------------------------------
(* The resolver: what one access does, path by path.                       *)

\* Faulty variant: the registries are consulted before the namespace.
DispatchRegistryFirst(nsx, name) ==
    IF name \in DOMAIN LazyTable(nsx) THEN "LiveLookup"
    ELSE IF name \in DOMAIN DeprecatedTable(nsx) THEN "DeprecatedLookup"
    ELSE IF name = "__version__" THEN "SpecialCased"
    ELSE IF IsBound(nsx, name) THEN "CacheHit"
    ELSE "Unresolvable"

\* Which path an access to `name` takes.  Ordinary lookup in the namespace
\* comes first; __getattr__ runs only when it finds nothing, and tests the
\* live table, the deprecated table and the special case in this order.
Dispatch(nsx, name) ==
    IF IsBound(nsx, name) THEN "CacheHit"
    ELSE IF name \in DOMAIN LazyTable(nsx) THEN "LiveLookup"
    ELSE IF name \in DOMAIN DeprecatedTable(nsx) THEN "DeprecatedLookup"
    ELSE IF name = "__version__" THEN "SpecialCased"
    ELSE "Unresolvable"

\* The unit backing a registry name, if any.
BackingUnits(nsx, name) ==
    IF name \in DOMAIN LazyTable(nsx)
    THEN { ResolveName(LazyTable(nsx)[name][1], Package) }
    ELSE IF name \in DOMAIN DeprecatedTable(nsx)
    THEN { ResolveName(DeprecatedTable(nsx)[name][1], Package) }
    ELSE {}

\* The record of one access.
Outcome(name, path, outcome, arg, value, signals, steps, calls) ==
    [name |-> name, path |-> path, outcome |-> outcome, arg |-> arg,
     value |-> value, signals |-> signals, steps |-> steps, calls |-> calls,
     repeat |-> FALSE, inits |-> {}]

NoAccess == Outcome("", "Start", "none", "", NoValue, <<>>, <<>>, <<>>)

\* Faulty variant: a missing symbol is replaced by a fallback and cached.
LiveResultFallback(nsx, mods, name, deps, loadOk, fetchOk) ==
    LET module_name == LazyEntry(nsx, name).module_name
        attr_name == LazyEntry(nsx, name).attr_name
        imp == ImportModule(mods, nsx, module_name, deps, loadOk)
        value == IF fetchOk THEN GetAttr(module_name, attr_name) ELSE NoValue
        calls == << ResolveName(module_name, Package) >>
    IN  IF ~imp.ok
        THEN [ns |-> imp.ns, modules |-> imp.modules, inits |-> imp.inits,
              out |-> Outcome(name, "LiveLookup", "ImportError", module_name,
                              NoValue, <<>>, <<>>, calls)]
        ELSE IF ~GlobalsIsBuiltin(imp.ns)
        THEN [ns |-> imp.ns, modules |-> imp.modules, inits |-> imp.inits,
              out |-> Outcome(name, "LiveLookup", "TypeError", "globals",
                              NoValue, <<>>, <<"load">>, calls)]
        ELSE [ns |-> StoreGlobal(imp.ns, name, value),
              modules |-> imp.modules, inits |-> imp.inits,
              out |-> Outcome(name, "LiveLookup", "value", "", value,
                              <<>>, <<"load", "store">>, calls)]

\* Lines 183-191 on the namespace `nsx` and module table `mods`.
LiveResult(nsx, mods, name, deps, loadOk, fetchOk) ==
    LET module_name == LazyEntry(nsx, name).module_name
        attr_name == LazyEntry(nsx, name).attr_name
        imp == ImportModule(mods, nsx, module_name, deps, loadOk)
        value == GetAttr(module_name, attr_name)
        calls == << ResolveName(module_name, Package) >>
    IN  IF ~imp.ok
        THEN [ns |-> imp.ns, modules |-> imp.modules, inits |-> imp.inits,
              out |-> Outcome(name, "LiveLookup", "ImportError", module_name,
                              NoValue, <<>>, <<>>, calls)]
        ELSE IF ~fetchOk
        THEN [ns |-> imp.ns, modules |-> imp.modules, inits |-> imp.inits,
              out |-> Outcome(name, "LiveLookup", "AttributeError", attr_name,
                              NoValue, <<>>, <<"load">>, calls)]
        ELSE IF ~GlobalsIsBuiltin(imp.ns)
        THEN [ns |-> imp.ns, modules |-> imp.modules, inits |-> imp.inits,
              out |-> Outcome(name, "LiveLookup", "TypeError", "globals",
                              NoValue, <<>>, <<"load", "fetch">>, calls)]
        ELSE [ns |-> StoreGlobal(imp.ns, name, value),
              modules |-> imp.modules, inits |-> imp.inits,
              out |-> Outcome(name, "LiveLookup", "value", "", value,
                              <<>>, <<"load", "fetch", "store">>, calls)]

\* Faulty variant: the unit is loaded before the signal is emitted.
DeprecatedResultLoadFirst(nsx, mods, name, deps, loadOk, fetchOk) ==
    LET module_name == DeprecatedEntry(nsx, name).module_name
        attr_name == DeprecatedEntry(nsx, name).attr_name
        warning_msg == DeprecatedEntry(nsx, name).warning_msg
        signals == Warn(<<>>, warning_msg)
        imp == ImportModule(mods, nsx, module_name, deps, loadOk)
        calls == << ResolveName(module_name, Package) >>
    IN  IF ~imp.ok
        THEN [ns |-> imp.ns, modules |-> imp.modules, inits |-> imp.inits,
              out |-> Outcome(name, "DeprecatedLookup", "ImportError",
                              module_name, NoValue, <<>>, <<>>, calls)]
        ELSE IF ~fetchOk
        THEN [ns |-> imp.ns, modules |-> imp.modules, inits |-> imp.inits,
              out |-> Outcome(name, "DeprecatedLookup", "AttributeError",
                              attr_name, NoValue, signals,
                              <<"load", "warn">>, calls)]
        ELSE [ns |-> imp.ns, modules |-> imp.modules, inits |-> imp.inits,
              out |-> Outcome(name, "DeprecatedLookup", "value", "",
                              GetAttr(module_name, attr_name),
                              signals, <<"load", "warn", "fetch">>,
                              calls)]

\* Faulty variant: the deprecated value is cached like a live export.
DeprecatedResultCached(nsx, mods, name, deps, loadOk, fetchOk) ==
    LET module_name == DeprecatedEntry(nsx, name).module_name
        attr_name == DeprecatedEntry(nsx, name).attr_name
        warning_msg == DeprecatedEntry(nsx, name).warning_msg
        signals == Warn(<<>>, warning_msg)
        imp == ImportModule(mods, nsx, module_name, deps, loadOk)
        value == GetAttr(module_name, attr_name)
        calls == << ResolveName(module_name, Package) >>
    IN  IF ~imp.ok
        THEN [ns |-> imp.ns, modules |-> imp.modules, inits |-> imp.inits,
              out |-> Outcome(name, "DeprecatedLookup", "ImportError",
                              module_name, NoValue, signals,
                              <<"warn">>, calls)]
        ELSE IF ~fetchOk
        THEN [ns |-> imp.ns, modules |-> imp.modules, inits |-> imp.inits,
              out |-> Outcome(name, "DeprecatedLookup", "AttributeError",
                              attr_name, NoValue, signals,
                              <<"warn", "load">>, calls)]
        ELSE [ns |-> StoreGlobal(imp.ns, name, value),
              modules |-> imp.modules, inits |-> imp.inits,
              out |-> Outcome(name, "DeprecatedLookup", "value", "", value,
                              signals, <<"warn", "load", "fetch">>, calls)]

\* Lines 194-201.
DeprecatedResult(nsx, mods, name, deps, loadOk, fetchOk) ==
    LET module_name == DeprecatedEntry(nsx, name).module_name
        attr_name == DeprecatedEntry(nsx, name).attr_name
        warning_msg == DeprecatedEntry(nsx, name).warning_msg
        signals == Warn(<<>>, warning_msg)
        imp == ImportModule(mods, nsx, module_name, deps, loadOk)
        calls == << ResolveName(module_name, Package) >>
    IN  IF ~imp.ok
        THEN [ns |-> imp.ns, modules |-> imp.modules, inits |-> imp.inits,
              out |-> Outcome(name, "DeprecatedLookup", "ImportError",
                              module_name, NoValue, signals,
                              <<"warn">>, calls)]
        ELSE IF ~fetchOk
        THEN [ns |-> imp.ns, modules |-> imp.modules, inits |-> imp.inits,
              out |-> Outcome(name, "DeprecatedLookup", "AttributeError",
                              attr_name, NoValue, signals,
                              <<"warn", "load">>, calls)]
        ELSE [ns |-> imp.ns, modules |-> imp.modules, inits |-> imp.inits,
              out |-> Outcome(name, "DeprecatedLookup", "value", "",
                              GetAttr(module_name, attr_name),
                              signals, <<"warn", "load", "fetch">>,
                              calls)]

\* Faulty variant: the version is cached like a live export.
VersionResultCached(nsx, mods, name, metaOk) ==
    LET signals == Warn(<<>>, VersionMessage)
    IN  IF metaOk
        THEN [ns |-> StoreGlobal(nsx, name, MetadataVersion("click")),
              modules |-> mods, inits |-> {},
              out |-> Outcome(name, "SpecialCased", "value", "",
                              MetadataVersion("click"), signals,
                              <<"warn", "query">>, <<>>)]
        ELSE [ns |-> nsx, modules |-> mods, inits |-> {},
              out |-> Outcome(name, "SpecialCased", "PackageNotFoundError",
                              "click", NoValue, signals, <<"warn">>, <<>>)]

\* Lines 204-215.
VersionResult(nsx, mods, name, metaOk) ==
    LET signals == Warn(<<>>, VersionMessage)
    IN  IF metaOk
        THEN [ns |-> nsx, modules |-> mods, inits |-> {},
              out |-> Outcome(name, "SpecialCased", "value", "",
                              MetadataVersion("click"), signals,
                              <<"warn", "query">>, <<>>)]
        ELSE [ns |-> nsx, modules |-> mods, inits |-> {},
              out |-> Outcome(name, "SpecialCased", "PackageNotFoundError",
                              "click", NoValue, signals, <<"warn">>, <<>>)]

\* Faulty variant: the function falls off its end and returns nothing.
UnresolvableReturnsNone(nsx, mods, name) ==
    [ns |-> nsx, modules |-> mods, inits |-> {},
     out |-> Outcome(name, "Unresolvable", "value", "", NoValue, <<>>, <<>>,
                     <<>>)]

\* Line 217.
UnresolvableResult(nsx, mods, name) ==
    [ns |-> nsx, modules |-> mods, inits |-> {},
     out |-> Outcome(name, "Unresolvable", "AttributeError", name, NoValue,
                     <<>>, <<>>, <<>>)]

\* Ordinary attribute lookup found the name: __getattr__ is not called.
HitResult(nsx, mods, name) ==
    [ns |-> nsx, modules |-> mods, inits |-> {},
     out |-> Outcome(name, "CacheHit", "value", "", nsx[name], <<>>, <<>>,
                     <<>>)]

---------------------------------------------------------------------------
(* The state machine.                                                      *)

LiveAccessNames == AccessNames \cap DOMAIN _lazy_imports

Threads == 1 .. NThreads

\* A thread that is not inside an access, and one that has begun the
\* resolution of `name` along `path` and is about to take step `pc`.
Idle ==
    [pc |-> "idle", name |-> "", path |-> "Start", steps |-> <<>>,
     signals |-> <<>>, calls |-> <<>>, inits |-> {}]

Running(pc, name, path) ==
    [pc |-> pc, name |-> name, path |-> path, steps |-> <<>>,
     signals |-> <<>>, calls |-> <<>>, inits |-> {}]

\* The first successful value of a live name, kept once it is there.
FirstValueAfter(name, out) ==
    IF /\ name \in DOMAIN firstValue
       /\ out.outcome = "value"
       /\ firstValue[name] = NoValue
    THEN [firstValue EXCEPT ![name] = out.value]
    ELSE firstValue

Init ==
    /\ ns = InitialNamespace
    /\ modules = {}
    /\ requested = {}
    /\ accessedUnits = {}
    /\ firstValue = [n \in LiveAccessNames |-> NoValue]
    /\ last = NoAccess
    /\ stores = [n \in AccessNames |-> 0]
    /\ threads = [t \in Threads |-> Idle]

\* The state after an access to `name` whose resolution gave `r`.
Commit(name, r) ==
    /\ ns' = r.ns
    /\ modules' = r.modules
    /\ requested' = requested \cup Range(r.out.calls)
    /\ accessedUnits' = accessedUnits \cup BackingUnits(ns, name)
    /\ firstValue' = FirstValueAfter(name, r.out)
    /\ last' = [r.out EXCEPT !.repeat = (last.name = name),
                              !.inits = r.inits]
    /\ stores' =
          IF "store" \in Range(r.out.steps)
          THEN [stores EXCEPT ![name] = @ + 1]
          ELSE stores
    /\ UNCHANGED threads

CacheHit(name) ==
    /\ Dispatch(ns, name) = "CacheHit"
    /\ Commit(name, HitResult(ns, modules, name))

LiveLookup(name) ==
    /\ Dispatch(ns, name) = "LiveLookup"
    /\ \E c \in HostChoices(modules, LazyEntry(ns, name).module_name) :
          Commit(name,
                 LiveResult(ns, modules, name, c.deps, c.loadOk, c.fetchOk))

DeprecatedLookup(name) ==
    /\ Dispatch(ns, name) = "DeprecatedLookup"
    /\ \E c \in HostChoices(modules, DeprecatedEntry(ns, name).module_name) :
          Commit(name,
                 DeprecatedResult(ns, modules, name, c.deps, c.loadOk,
                                  c.fetchOk))

SpecialCased(name) ==
    /\ Dispatch(ns, name) = "SpecialCased"
    /\ \E metaOk \in BOOLEAN :
          Commit(name, VersionResult(ns, modules, name, metaOk))

Unresolvable(name) ==
    /\ Dispatch(ns, name) = "Unresolvable"
    /\ Commit(name, UnresolvableResult(ns, modules, name))

\* One attribute access on the package.
Access(name) ==
    \/ CacheHit(name)
    \/ LiveLookup(name)
    \/ DeprecatedLookup(name)
    \/ SpecialCased(name)
    \/ Unresolvable(name)

Next == \E name \in AccessNames : Access(name)

Spec == Init /\ [][Next]_vars

---------------------------------------------------------------------------
(* The same accesses made by several threads.  Each thread takes the steps *)
(* of __getattr__ one at a time; the steps of different threads            *)
(* interleave.  The host serialises the loads of a unit, so a load is one  *)
(* step.                                                                   *)

\* The access of thread `t` ends: what it returned or raised is recorded.
Finish(t, outcome, arg, value, th) ==
    LET out == [Outcome(th.name, th.path, outcome, arg, value, th.signals,
                        th.steps, th.calls)
                  EXCEPT !.repeat = (last.name = th.name), !.inits = th.inits]
    IN  /\ threads' = [threads EXCEPT ![t] = Idle]
        /\ last' = out
        /\ firstValue' = FirstValueAfter(th.name, out)

\* The step a thread takes after `step`.
Advance(t, th, step, pc) ==
    /\ threads' = [threads EXCEPT ![t] =
                      [th EXCEPT !.pc = pc, !.steps = Append(@, step)]]
    /\ UNCHANGED <<last, firstValue>>

\* Attribute lookup and, when it finds nothing, the tests of __getattr__.
TBegin(t, name) ==
    LET path == Dispatch(ns, name)
        th == Running("begin", name, path)
    IN  /\ threads[t].pc = "idle"
        /\ accessedUnits' = accessedUnits \cup BackingUnits(ns, name)
        /\ UNCHANGED <<ns, modules, requested, stores>>
        /\ CASE path = "CacheHit" -> Finish(t, "value", "", ns[name], th)
             [] path = "Unresolvable" ->
                    Finish(t, "AttributeError", name, NoValue, th)
             [] path = "LiveLookup" ->
                    /\ threads' =
                          [threads EXCEPT ![t] = [th EXCEPT !.pc = "load"]]
                    /\ UNCHANGED <<last, firstValue>>
             [] OTHER ->
                    /\ threads' =
                          [threads EXCEPT ![t] = [th EXCEPT !.pc = "warn"]]
                    /\ UNCHANGED <<last, firstValue>>

\* Lines 199 and 208.
TWarn(t) ==
    LET th == threads[t]
        message == IF th.path = "DeprecatedLookup"
                   THEN DeprecatedEntry(ns, th.name).warning_msg
                   ELSE VersionMessage
        warned == [th EXCEPT !.signals = Warn(@, message)]
    IN  /\ th.pc = "warn"
        /\ Advance(t, warned, "warn",
                   IF th.path = "DeprecatedLookup" THEN "load" ELSE "query")
        /\ UNCHANGED <<ns, modules, requested, accessedUnits, stores>>

\* The unit a thread on a registry path is resolving from.
UnitOf(th) ==
    IF th.path = "LiveLookup"
    THEN LazyEntry(ns, th.name).module_name
    ELSE DeprecatedEntry(ns, th.name).module_name

SymbolOf(th) ==
    IF th.path = "LiveLookup"
    THEN LazyEntry(ns, th.name).attr_name
    ELSE DeprecatedEntry(ns, th.name).attr_name

\* Lines 187 and 200.
TLoad(t) ==
    LET th == threads[t]
        module_name == UnitOf(th)
    IN  /\ th.pc = "load"
        /\ \E c \in HostChoices(modules, module_name) :
              LET imp == ImportModule(modules, ns, module_name, c.deps,
                                      c.loadOk)
                  called ==
                      [th EXCEPT
                          !.calls =
                              Append(@, ResolveName(module_name, Package)),
                          !.inits = @ \cup imp.inits]
              IN  /\ ns' = imp.ns
                  /\ modules' = imp.modules
                  /\ requested' =
                        requested \cup {ResolveName(module_name, Package)}
                  /\ IF imp.ok
                     THEN Advance(t, called, "load", "fetch")
                     ELSE Finish(t, "ImportError", module_name, NoValue,
                                 called)
        /\ UNCHANGED <<accessedUnits, stores>>

\* Lines 188 and 201.
TFetch(t) ==
    LET th == threads[t]
        value == GetAttr(UnitOf(th), SymbolOf(th))
    IN  /\ th.pc = "fetch"
        /\ \E fetchOk \in BOOLEAN :
              IF ~fetchOk
              THEN Finish(t, "AttributeError", SymbolOf(th), NoValue, th)
              ELSE IF th.path = "DeprecatedLookup"
              THEN Finish(t, "value", "", value,
                          [th EXCEPT !.steps = Append(@, "fetch")])
              ELSE Advance(t, th, "fetch", "store")
        /\ UNCHANGED <<ns, modules, requested, accessedUnits, stores>>

\* Lines 190-191.
TStore(t) ==
    LET th == threads[t]
        value == GetAttr(UnitOf(th), SymbolOf(th))
    IN  /\ th.pc = "store"
        /\ IF GlobalsIsBuiltin(ns)
           THEN /\ ns' = StoreGlobal(ns, th.name, value)
                /\ stores' = [stores EXCEPT ![th.name] = @ + 1]
                /\ Finish(t, "value", "", value,
                          [th EXCEPT !.steps = Append(@, "store")])
           ELSE /\ Finish(t, "TypeError", "globals", NoValue, th)
                /\ UNCHANGED <<ns, stores>>
        /\ UNCHANGED <<modules, requested, accessedUnits>>

\* Line 215.
TQuery(t) ==
    LET th == threads[t]
    IN  /\ th.pc = "query"
        /\ \E metaOk \in BOOLEAN :
              IF metaOk
              THEN Finish(t, "value", "", MetadataVersion("click"),
                          [th EXCEPT !.steps = Append(@, "query")])
              ELSE Finish(t, "PackageNotFoundError", "click", NoValue, th)
        /\ UNCHANGED <<ns, modules, requested, accessedUnits, stores>>

\* A step of a thread that is inside an access.
TStep(t) == TWarn(t) \/ TLoad(t) \/ TFetch(t) \/ TStore(t) \/ TQuery(t)

NextConc ==
    \E t \in Threads :
        \/ \E name \in ConcNames : TBegin(t, name)
        \/ TWarn(t)
        \/ TLoad(t)
        \/ TFetch(t)
        \/ TStore(t)
        \/ TQuery(t)

SpecConc == Init /\ [][NextConc]_vars

---------------------------------------------------------------------------
(* Claims.                                                                 *)

Accessed == last.outcome # "none"
IsLive(name) == name \in DOMAIN _lazy_imports
IsDeprecated(name) == name \in DOMAIN _deprecated_imports
Did(step) == step \in Range(last.steps)

\* C1: once an access to a live name has succeeded with value v, every later
\* access to that name returns v, whatever was accessed in between.
C1_LiveIdentityStable ==
    \A n \in DOMAIN firstValue :
        (last.name = n /\ firstValue[n] # NoValue)
            => (last.outcome = "value" /\ last.value = firstValue[n])

\* A later access to Command, made after other accesses have loaded the
\* unit .globals, returns the value of the first one.
C1_Witness ==
    /\ last.name = "Command"
    /\ last.path = "CacheHit"
    /\ ~last.repeat
    /\ "click.globals" \in modules
    /\ last.value = firstValue["Command"]

\* C2: every access to a deprecated name emits exactly one deprecation
\* signal, carrying that name's message, and no deprecated name is ever
\* stored in the namespace.
C2_OneSignalPerDeprecatedAccess ==
    /\ IsDeprecated(last.name)
          => last.signals = << _deprecated_imports[last.name][3] >>
    /\ \A n \in DOMAIN _deprecated_imports : ~IsBound(ns, n)

\* BaseCommand accessed twice in a row: the second access signals again.
C2_Witness ==
    /\ last.name = "BaseCommand"
    /\ last.repeat
    /\ last.outcome = "value"
    /\ Len(last.signals) = 1

\* What an unresolvable access must look like.
UnresolvableOutcome(name) ==
    /\ last'.outcome = "AttributeError"
    /\ last'.arg = name
    /\ last'.signals = <<>>
    /\ last'.calls = <<>>
    /\ ns' = ns
    /\ modules' = modules
    /\ requested' = requested

InNoRegistry(name) ==
    ~IsLive(name) /\ ~IsDeprecated(name) /\ name # "__version__"

\* C3 as stated: every access to a name in neither registry and other than
\* __version__ ends in AttributeError carrying the name, with no signal, no
\* load and the namespace unchanged.
C3_Original ==
    [][InNoRegistry(last'.name) => UnresolvableOutcome(last'.name)]_vars

\* C3 amended: the same, for the names the package namespace does not bind
\* at the time of the access.
C3_UnboundUnknownNameRaises ==
    [][(InNoRegistry(last'.name) /\ ~IsBound(ns, last'.name))
          => UnresolvableOutcome(last'.name)]_vars

\* An unknown name was accessed after a live name had been cached.
C3_Witness ==
    /\ last.name = "nonexistent_attribute"
    /\ last.outcome = "AttributeError"
    /\ IsBound(ns, "Command")

\* The value an eager `from .unit import symbol` would have bound.
EagerValue(name) == Attr(_lazy_imports[name][1], _lazy_imports[name][2])

\* C4: an access to a live name whose load and symbol fetch succeed returns
\* the value an eager import binds, and emits no signal.
C4_LazyEqualsEager ==
    (IsLive(last.name) /\ (last.path = "CacheHit" \/ Did("fetch")))
        => /\ last.outcome = "value"
           /\ last.value = EagerValue(last.name)
           /\ last.signals = <<>>

\* C5: nothing is loaded before the first access, and the units this layer
\* has asked the host to load all back names that have been accessed.
C5_NoEagerLoading ==
    /\ ~Accessed => (modules = {} /\ requested = {})
    /\ requested \subseteq accessedUnits

\* The layer has asked for .core only, and .utils, whose names were never
\* accessed, is not loaded.
C5_Witness ==
    /\ requested = {"click.core"}
    /\ "click.utils" \notin modules
    /\ IsBound(ns, "Command")

\* C6: a successful access to a live name asks the host for the name's own
\* unit and no other (for nothing at all when the name is already cached),
\* and leaves that unit loaded.
C6_LoadsExactlyItsUnit ==
    (IsLive(last.name) /\ last.outcome = "value")
        => LET unit == "click" \o _lazy_imports[last.name][1]
           IN  /\ unit \in modules
               /\ \/ last.path = "CacheHit" /\ last.calls = <<>>
                  \/ last.path = "LiveLookup" /\ last.calls = <<unit>>

\* The first access to echo has succeeded, with other units already loaded.
C6_Witness ==
    /\ last.name = "echo"
    /\ last.path = "LiveLookup"
    /\ last.outcome = "value"
    /\ last.calls = <<"click.utils">>
    /\ "click.core" \in modules

ExportList == Contents(ns["__all__"])
LiveTable == Contents(ns["_lazy_imports"])

\* C7: the export list holds exactly the keys of the live table, each once,
\* and no access changes the list or the table.
C7_ExportListIsLiveKeys ==
    /\ [](/\ Range(ExportList) = DOMAIN LiveTable
          /\ Cardinality(Range(ExportList)) = Len(ExportList))
    /\ [][/\ ns'["__all__"] = ns["__all__"]
          /\ ns'["_lazy_imports"] = ns["_lazy_imports"]]_vars

\* A live lookup has stored into the namespace that holds both.
C7_Witness ==
    /\ last.path = "LiveLookup"
    /\ Did("store")
    /\ Range(ExportList) = DOMAIN LiveTable

\* The symbols the deprecated names stand for.
LegacyValue(name) ==
    CASE name = "BaseCommand" -> Attr(".core", "_BaseCommand")
      [] name = "MultiCommand" -> Attr(".core", "_MultiCommand")
      [] name = "OptionParser" -> Attr(".parser", "_OptionParser")

\* C8: an access to a deprecated name whose load and fetch succeed returns
\* the value of the entry's symbol in the entry's unit, signal or no signal.
C8_DeprecatedReturnsLegacyValue ==
    (IsDeprecated(last.name) /\ Did("fetch"))
        => /\ last.outcome = "value"
           /\ last.value = LegacyValue(last.name)
           /\ last.value = Attr(_deprecated_imports[last.name][1],
                                _deprecated_imports[last.name][2])
           /\ last.signals # <<>>

\* OptionParser has been resolved, with its signal.
C8_Witness ==
    /\ last.name = "OptionParser"
    /\ last.outcome = "value"
    /\ last.value = Attr(".parser", "_OptionParser")
    /\ Len(last.signals) = 1

\* What every access to __version__ does, whatever it returns.
VersionFrame ==
    /\ last'.signals = <<VersionMessage>>
    /\ last'.calls = <<>>
    /\ ns' = ns
    /\ modules' = modules
    /\ requested' = requested

\* C9 as stated: every access to __version__ emits one signal, returns the
\* version the metadata facility gives for click, loads no unit and stores
\* nothing.
C9_Original ==
    [][last'.name = "__version__"
          => /\ VersionFrame
             /\ last'.outcome = "value"
             /\ last'.value = VersionOf("click")]_vars

\* C9 amended: every access to __version__ emits one signal, loads no unit
\* and stores nothing; it returns the version the metadata facility gives
\* for click when the facility gives one, and otherwise ends in the
\* facility's own failure.
C9_VersionAccess ==
    [][last'.name = "__version__"
          => /\ VersionFrame
             /\ IF "query" \in Range(last'.steps)
                THEN /\ last'.outcome = "value"
                     /\ last'.value = VersionOf("click")
                ELSE last'.outcome = "PackageNotFoundError"]_vars

\* __version__ accessed twice in a row, answered by the facility.
C9_Witness ==
    /\ last.name = "__version__"
    /\ last.repeat
    /\ last.outcome = "value"
    /\ Len(last.signals) = 1
    /\ ~IsBound(ns, "__version__")

\* The three tests of __getattr__, taken in the order `order`.
Holds(test, nsx, name) ==
    CASE test = "LiveLookup" -> name \in DOMAIN LazyTable(nsx)
      [] test = "DeprecatedLookup" -> name \in DOMAIN DeprecatedTable(nsx)
      [] test = "SpecialCased" -> name = "__version__"

DispatchInOrder(order, nsx, name) ==
    IF IsBound(nsx, name) THEN "CacheHit"
    ELSE IF Holds(order[1], nsx, name) THEN order[1]
    ELSE IF Holds(order[2], nsx, name) THEN order[2]
    ELSE IF Holds(order[3], nsx, name) THEN order[3]
    ELSE "Unresolvable"

TestOrders ==
    { o \in [1..3 -> {"LiveLookup", "DeprecatedLookup", "SpecialCased"}] :
        Cardinality(Range(o)) = 3 }

RegistryNames ==
    DOMAIN LazyTable(ns) \cup DOMAIN DeprecatedTable(ns) \cup {"__version__"}

\* C10: no name is a key of both tables, __version__ is a key of neither,
\* and the path chosen for a name is the same in whichever order the live
\* table, the deprecated table and the special case are tested.
C10_RegistriesDisjoint ==
    /\ DOMAIN LazyTable(ns) \cap DOMAIN DeprecatedTable(ns) = {}
    /\ "__version__" \notin DOMAIN LazyTable(ns)
    /\ "__version__" \notin DOMAIN DeprecatedTable(ns)
    /\ \A name \in RegistryNames \cup AccessNames :
          \A order \in TestOrders :
              DispatchInOrder(order, ns, name) = Dispatch(ns, name)

\* A name outside the cache was dispatched on the second test.
C10_Witness ==
    /\ last.path = "DeprecatedLookup"
    /\ last.name = "MultiCommand"
    /\ ~IsBound(ns, "MultiCommand")

IsPrefix(p, q) == Len(p) <= Len(q) /\ p = SubSeq(q, 1, Len(p))

\* C11 as stated: a deprecated access loads the unit, then emits the
\* signal, then fetches the symbol; an access to __version__ queries the
\* metadata facility, then emits the signal; no signal precedes the load or
\* the query.
C11_Original ==
    /\ IsDeprecated(last.name)
          => /\ IsPrefix(last.steps, <<"load", "warn", "fetch">>)
             /\ ~Did("load") => last.signals = <<>>
    /\ last.name = "__version__"
          => /\ IsPrefix(last.steps, <<"query", "warn">>)
             /\ ~Did("query") => last.signals = <<>>

\* C11 amended: a deprecated access emits the signal, then loads the unit,
\* then fetches the symbol; an access to __version__ emits the signal, then
\* queries the metadata facility; the signal is out before the load or the
\* query, also when that step fails.
C11_SignalFirst ==
    /\ IsDeprecated(last.name)
          => /\ IsPrefix(last.steps, <<"warn", "load", "fetch">>)
             /\ Did("warn")
             /\ Len(last.signals) = 1
    /\ last.name = "__version__"
          => /\ IsPrefix(last.steps, <<"warn", "query">>)
             /\ Did("warn")
             /\ Len(last.signals) = 1

\* A deprecated access whose load failed has emitted its signal.
C11_Witness ==
    /\ last.name = "OptionParser"
    /\ last.outcome = "ImportError"
    /\ last.steps = <<"warn">>
    /\ Len(last.signals) = 1

\* C12: a live resolution whose load fails, or whose unit lacks the symbol,
\* ends in that failure, after one loader call, with no value, and leaves
\* the resolution cache as it was, so that the next access to the name runs
\* the resolver again.
C12_FailedLiveLeavesNoTrace ==
    [][(last'.path = "LiveLookup" /\ "fetch" \notin Range(last'.steps))
          => /\ last'.outcome =
                   IF "load" \in Range(last'.steps)
                   THEN "AttributeError" ELSE "ImportError"
             /\ last'.arg =
                   IF "load" \in Range(last'.steps)
                   THEN _lazy_imports[last'.name][2]
                   ELSE _lazy_imports[last'.name][1]
             /\ last'.value = NoValue
             /\ Len(last'.calls) = 1
             /\ ResolutionCache(ns') = ResolutionCache(ns)
             /\ last'.name \notin CacheKeys(ns')
             /\ Dispatch(ns', last'.name) = "LiveLookup"]_vars

\* Command was resolved again right after a failed resolution, and its
\* symbol was missing.
C12_Witness ==
    /\ last.name = "Command"
    /\ last.repeat
    /\ last.path = "LiveLookup"
    /\ last.outcome = "AttributeError"
    /\ ~IsBound(ns, "Command")

\* C13: the resolver runs once for a live name that resolves: the access
\* that first succeeds makes one loader call, and every access after it is
\* a cache hit that consults no registry and calls no loader.
C13_ResolverRunsOnce ==
    [][\A n \in DOMAIN firstValue :
          /\ (last'.name = n /\ firstValue[n] # NoValue)
                => /\ last'.path = "CacheHit"
                   /\ last'.calls = <<>>
                   /\ last'.steps = <<>>
          /\ (firstValue[n] = NoValue /\ firstValue'[n] # NoValue)
                => /\ last'.name = n
                   /\ last'.path = "LiveLookup"
                   /\ Len(last'.calls) = 1]_vars

\* Group, resolved earlier, was accessed twice in a row.
C13_Witness ==
    /\ last.name = "Group"
    /\ last.repeat
    /\ last.path = "CacheHit"
    /\ firstValue["Group"] # NoValue

\* C16: the host initialises only units that are not in its module table,
\* a unit initialised during a successful access stays in the table, and
\* nothing ever leaves the table; so over successful accesses a unit is
\* initialised at most once and every later loader call finds it loaded.
C16_UnitInitialisedOnce ==
    [][/\ last'.inits \cap modules = {}
       /\ modules \subseteq modules'
       /\ last'.outcome # "ImportError" => last'.inits \subseteq modules'
       /\ (last'.calls # <<>> /\ last'.calls[1] \in modules)
             => last'.inits = {}]_vars

\* Group was resolved after Command: .core was asked for again and was not
\* initialised again.
C16_Witness ==
    /\ last.name = "Group"
    /\ last.path = "LiveLookup"
    /\ last.outcome = "value"
    /\ last.calls = <<"click.core">>
    /\ last.inits = {}
    /\ IsBound(ns, "Command")

\* C18: the cache is empty before the first access; its keys are live
\* names, each holding the value of the name's unit and symbol; and no
\* access removes an entry or replaces its value.
C18_CacheConsistent ==
    /\ [](/\ ~Accessed => CacheKeys(ns) = {}
          /\ \A k \in CacheKeys(ns) : IsLive(k) /\ ns[k] = EagerValue(k))
    /\ [][\A k \in CacheKeys(ns) : k \in CacheKeys(ns') /\ ns'[k] = ns[k]]_vars

\* Two live names are cached and a deprecated name has just been resolved.
C18_Witness ==
    /\ CacheKeys(ns) = {"Command", "echo"}
    /\ last.name = "BaseCommand"
    /\ last.outcome = "value"

LiveConcNames == ConcNames \cap DOMAIN _lazy_imports

InFlight(n) ==
    { t \in Threads :
        threads[t].name = n /\ threads[t].pc \in {"load", "fetch", "store"}
            /\ threads[t].path = "LiveLookup" }

\* C15 as stated: in every execution, also with threads resolving a name
\* at the same moment, the resolver stores under a name at most once.
C15_Original == \A n \in DOMAIN stores : stores[n] <= 1

\* C15 amended: a thread stores under a name at most once, and only if the
\* name was absent when its access began, so the stores under a name are at
\* most as many as the threads (one in a single-threaded execution); every
\* store under a live name writes the value of its unit and symbol, over
\* nothing or over that same value.
C15_OneStorePerThread ==
    /\ [](\A n \in DOMAIN stores :
             /\ stores[n] + Cardinality(InFlight(n)) <= NThreads
             /\ stores[n] > 0 => ns[n] = EagerValue(n))
    /\ [][\A n \in DOMAIN stores :
             stores'[n] # stores[n]
                => /\ stores'[n] = stores[n] + 1
                   /\ ns'[n] = EagerValue(n)
                   /\ ~IsBound(ns, n) \/ ns[n] = ns'[n]]_vars

\* Every thread has stored under Command and is idle again.
C15_Witness ==
    /\ stores["Command"] = NThreads
    /\ \A t \in Threads : threads[t].pc = "idle"
    /\ ns["Command"] = EagerValue("Command")

\* The path the priority order gives a name.
Priority(nsx, name) ==
    DispatchInOrder(<<"LiveLookup", "DeprecatedLookup", "SpecialCased">>,
                    nsx, name)

\* A thread inside an access has taken at most three steps and can take
\* its next one.
Progressing ==
    \A t \in Threads :
        /\ Len(threads[t].steps) <= 3
        /\ threads[t].pc # "idle" => ENABLED TStep(t)

\* Every access begins on the path the priority order gives its name.
PathByPriority ==
    /\ \A t \in Threads :
          (threads[t].pc = "idle" /\ threads'[t].pc # "idle")
             => threads'[t].path = Priority(ns, threads'[t].name)
    /\ (threads' = threads /\ last' # last)
          => /\ last'.path = Priority(ns, last'.name)
             /\ last'.path \in {"CacheHit", "Unresolvable"}

\* The endings the claim lists: the five terminals, or a propagated failure
\* of the load or of the fetch; the failure of the metadata query, the load
\* step of the special-cased path, is counted with them.
ListedEnding ==
    CASE last.path = "CacheHit" -> last.outcome = "value"
      [] last.path = "LiveLookup" ->
            last.outcome \in {"value", "ImportError", "AttributeError"}
      [] last.path = "DeprecatedLookup" ->
            last.outcome \in {"value", "ImportError", "AttributeError"}
      [] last.path = "SpecialCased" ->
            last.outcome \in {"value", "PackageNotFoundError"}
      [] last.path = "Unresolvable" -> last.outcome = "AttributeError"
      [] OTHER -> FALSE

\* C17: every request takes the path the priority order gives its name,
\* ends after a bounded number of steps without loop or retry, and ends in
\* one of the five terminals or in a propagated load or fetch failure.
C17_TerminatesInOneOutcome ==
    /\ [](Progressing /\ (Accessed => ListedEnding))
    /\ [][PathByPriority]_vars

=============================================================================
